---- MODULE Spec2Model ----
(***************************************************************************)
(* State-machine model of feishu_bot.FeishuBot (src/feishu_bot/bot.py):    *)
(* the retried request pipeline, the TTL token cache, the cached           *)
(* destination list and the fan-out of send_to_groups, run on one asyncio  *)
(* event loop.  One action is one run of a coroutine between two           *)
(* suspension points (an HTTP round trip or the retry sleep).              *)
(***************************************************************************)
EXTENDS Integers, Sequences, FiniteSets, TLC

\* ---------------------------------------------------------------- bounds
\* Spec, the client used for any of its operations, fan-out included:
\* top-level operations a run starts
MaxCalls == 2
\* invocations of FeishuBot.request (get/post) a run makes, token fetches aside
MaxReqs == 3
\* the clock stops here (seconds)
MaxTime == 1
\* responses other than code 0 the platform gives in a run
MaxFaults == 2
\* the token_ttl the client is constructed with (seconds)
FanTTL == 1
\* SeqSpec, a caller that awaits one get/post after the other:
\* the requests of a run
MaxSeqCalls == 3
\* the clock stops here (seconds)
MaxSeqTime == 3
\* responses other than code 0 the platform gives in a run
MaxSeqFaults == 3
\* the largest token_ttl the client is constructed with (seconds)
MaxSeqTTL == 2

\* HdrSpec, get/post calls given headers of their own:
\* the requests of a run
MaxHdrCalls == 2
\* the clock stops here (seconds)
MaxHdrTime == 1
\* responses other than code 0 the platform gives in a run
MaxHdrFaults == 1

\* CacheSpec, the cached lookups get_groups and get_user_detail:
\* the lookups of a run
MaxCacheCalls == 3
\* the clock stops here (seconds)
MaxCacheTime == 1
\* responses other than code 0 the platform gives in a run
MaxCacheFaults == 2
\* ImgSpec, send_image:
\* the send_image calls of a run
MaxImgCalls == 1
\* invocations of FeishuBot.request a run makes
MaxImgReqs == 4
\* the clock stops here (seconds)
MaxImgTime == 1
\* responses other than code 0 the platform gives in a run
MaxImgFaults == 2

\* the run of one request to its end: requests made one after the other
MaxTermCalls == 1
\* responses other than code 0 given in that run
MaxTermFaults == 9
FanLimits == [calls |-> MaxCalls, reqs |-> MaxReqs, time |-> MaxTime, faults |-> MaxFaults]
SeqLimits == [calls |-> MaxSeqCalls, reqs |-> MaxSeqCalls, time |-> MaxSeqTime,
              faults |-> MaxSeqFaults]

HdrLimits == [calls |-> MaxHdrCalls, reqs |-> MaxHdrCalls, time |-> MaxHdrTime,
              faults |-> MaxHdrFaults]

CacheLimits == [calls |-> MaxCacheCalls, reqs |-> MaxCacheCalls, time |-> MaxCacheTime,
                faults |-> MaxCacheFaults]
ImgLimits == [calls |-> MaxImgCalls, reqs |-> MaxImgReqs, time |-> MaxImgTime,
              faults |-> MaxImgFaults]

\* ------------------------------------------------------ program constants
\* the reserved "tenant access token error" code
TOKEN_EXPIRED == 99991663
\* stop_after_attempt(3)
MaxAttempts == 3
\* wait_fixed(1)
RetryWait == 1
\* timedelta(minutes=5).seconds
GroupsTTL == 300
\* timedelta(hours=1).seconds
DefaultTTL == 3600
\* the seconds of one day
SecondsPerDay == 86400
\* timedelta(...).seconds: the seconds field of a timedelta of the given
\* length, which holds what is left after the whole days (total_seconds()
\* is the whole length)
MutTimedeltaTotal(total) == total
TimedeltaSeconds(total) == total % SecondsPerDay
\* timedelta(days=1).seconds, the ttl of the cache behind get_user_detail: 0
UserTTL == TimedeltaSeconds(SecondsPerDay)
\* TTLCache(32, ...) behind get_user_detail
UserCacheSize == 32
\* TTLCache(1, ...) behind get_groups
GroupsCacheSize == 1
\* a generic failure code of the platform
OTHER_ERROR == 1001
\* a code below zero
NEGATIVE_CODE == -1

\* the limits of the run of one request to its end: a request sleeps at most
\* MaxAttempts - 1 times between its attempts and MaxAttempts - 1 times between
\* the token calls of each attempt
TermLimits == [calls |-> MaxTermCalls, reqs |-> MaxTermCalls,
               time |-> MaxTermCalls * (MaxAttempts * MaxAttempts - 1) * RetryWait,
               faults |-> MaxTermFaults]

\* ------------------------------------------------------------ data values
Tokens == {"t1", "t2"}
\* what TTLCache.get returns for a missing key, rendered as the falsy value
NoToken == ""
Chats == {"a", "b"}
Msgs == {"bad request", "bad tenant_access_token"}
TheBot == "bot"

\* the keys request() reads from the decoded body, lines 49-50
EnvelopeKeys == {"code", "msg"}
\* a response body: json = FALSE is a body that does not decode, keys are
\* the envelope keys the decoded body has; data holds at most one element,
\* the endpoint's payload
NoResp == [json |-> FALSE, keys |-> {}, code |-> 0, msg |-> "", data |-> <<>>]
Malformed == NoResp
\* a JSON body without the 'msg' key: {"code": 0}
NoMsg == [json |-> TRUE, keys |-> {"code"}, code |-> 0, msg |-> "", data |-> <<>>]
\* a JSON body without the 'code' key: {"msg": "OK"}
NoCode == [json |-> TRUE, keys |-> {"msg"}, code |-> 0, msg |-> "OK", data |-> <<>>]
\* the JSON body {}
EmptyBody == [json |-> TRUE, keys |-> {}, code |-> 0, msg |-> "", data |-> <<>>]
Env(c, m, d) == [json |-> TRUE, keys |-> EnvelopeKeys, code |-> c, msg |-> m, data |-> d]
\* the decoded body has both keys
HasKeys(resp) == EnvelopeKeys \subseteq resp.keys

ErrorEnvs ==
    {Env(OTHER_ERROR, m, <<>>) : m \in Msgs}
    \cup {Env(TOKEN_EXPIRED, "token expired", <<>>), Env(NEGATIVE_CODE, "negative", <<>>)}
FaultResponses == ErrorEnvs \cup {Malformed, NoMsg, NoCode}
IsFault(resp) == ~resp.json \/ ~HasKeys(resp) \/ resp.code # 0

\* POST /auth/v3/app_access_token/internal/
TokenResponses == {Env(0, "OK", <<t>>) : t \in Tokens} \cup FaultResponses
\* GET /chat/v4/list
Group(g) == [chat_id |-> g, name |-> g]
GroupLists == {<<>>, <<Group("a")>>, <<Group("b"), Group("a")>>}
GroupsResponses == {Env(0, "OK", <<gl>>) : gl \in GroupLists} \cup FaultResponses
\* POST /message/v4/send/ : the platform's answer names the chat it was sent to
SendResponses(chat) == {Env(0, "OK", <<chat>>)} \cup FaultResponses
\* any other authenticated endpoint (e.g. POST /chat/v4/update/)
OpResponses == {Env(0, "OK", <<>>)} \cup FaultResponses \cup {EmptyBody}

ResponsesOf(endpoint, chat) ==
    CASE endpoint = "groups" -> GroupsResponses
      [] endpoint = "send" -> SendResponses(chat)
      [] OTHER -> OpResponses

\* GET /contact/v1/user/batch_get : data.user_infos[0] is the user's detail,
\* whose content may differ from one answer to the next
Users == {"u1", "u2"}
UserInfo(u, n) == [open_id |-> u, name |-> n]
UserResponses(u) == {Env(0, "OK", <<UserInfo(u, n)>>) : n \in {"n1", "n2"}} \cup FaultResponses
\* POST /image/v4/put/ : data.image_key, or an answer without it
ImageKeys == {"k1", "k2"}
UploadResponses ==
    {Env(0, "OK", <<k>>) : k \in ImageKeys} \cup {Env(0, "OK", <<>>)} \cup FaultResponses
\* the other FeishuBot instance of the process
Peer == "peer"
\* key of the asyncache wrapper of get_user_detail: hashkey(self, open_id)
UserKey(bot, u) == <<bot, u>>

\* the groups argument of send_to_groups: None, a str, or a list
NoneArg == [kind |-> "none", id |-> "", ids |-> <<>>]
StrArg(g) == [kind |-> "str", id |-> g, ids |-> <<>>]
ListArg(l) == [kind |-> "list", id |-> "", ids |-> l]
GroupsArgs ==
    {NoneArg, StrArg("a")}
    \cup {ListArg(l) : l \in {<<>>, <<"a", "a">>, <<"b", "a">>}}

\* HTTP headers: a value per header name, "" for a header that is not set
HeaderNames == {"Authorization", "X-Request-Id"}
NoHeaders == [h \in HeaderNames |-> ""]
\* the headers= argument a caller may give get/post/request
ExtraHeaders ==
    {NoHeaders,
     [NoHeaders EXCEPT !["X-Request-Id"] = "1"],
     [NoHeaders EXCEPT !["Authorization"] = "Basic x"]}
\* line 37: f'Bearer {token}'
Bearer(token) == "Bearer " \o token
\* lines 36-39: {'Authorization': f'Bearer {token}', **kwargs.pop('headers', {})},
\* the keys of the second dict replacing those of the first
AuthHeaders(token, extra) ==
    [h \in HeaderNames |->
        IF extra[h] # "" THEN extra[h]
        ELSE IF h = "Authorization" THEN Bearer(token) ELSE ""]

\* outcomes of a coroutine: a returned value or a raised exception
NoOutcome == [kind |-> "none", type |-> "", code |-> 0, msg |-> "", resp |-> NoResp]
Returned(resp) == [kind |-> "ok", type |-> "", code |-> 0, msg |-> "", resp |-> resp]
Raised(type, code, msg) == [kind |-> "err", type |-> type, code |-> code, msg |-> msg, resp |-> NoResp]

VARIABLES
    now,            \* time.monotonic(), in seconds
    token_ttl,      \* the ttl of self.token_cache
    token_cache,    \* self.token_cache, a TTLCache(1, token_ttl): the set of its items
    groups_cache,   \* the TTLCache(1, 300) behind get_groups: the set of its items
    user_cache,     \* the TTLCache(32, UserTTL) behind get_user_detail: the set of its items
    reqs,           \* the invocations of request(), in the order they were made
    calls,          \* the top-level operations, in the order they were started
    faults,         \* responses other than code 0 given so far
    tokenCalls,     \* calls the token endpoint has received
    firstStore      \* the time of the first store into token_cache, -1 before it

vars == <<now, token_ttl, token_cache, groups_cache, user_cache, reqs, calls, faults, tokenCalls, firstStore>>

\* ------------------------------------------------------------- TTLCache
\* A cachetools.TTLCache is the set of its items; "at" is the time of the store
\* (expires - ttl), kept for the properties.
Item(key, value, t, ttl) == [key |-> key, value |-> value, expires |-> t + ttl, at |-> t]

\* an item is gone once the timer has reached its expiry
MutLiveInclusive(e, t) == t <= e.expires
Live(e, t) == t < e.expires

\* key in cache
CacheHas(cache, key, t) == \E e \in cache : e.key = key /\ Live(e, t)
\* the item cache[key] reads
CacheItem(cache, key) == CHOOSE e \in cache : e.key = key

\* popitem(): the item stored first goes first
Evict(items, maxsize) ==
    IF Cardinality(items) < maxsize THEN items
    ELSE items \ {CHOOSE e \in items : \A f \in items : e.expires <= f.expires}

\* cache[key] = value: expired items are dropped, the key's old item is replaced,
\* and room is made when the cache is full
MutCacheSetExpired(cache, key, value, t, ttl, maxsize) ==
    Evict({e \in cache : e.key # key /\ Live(e, t)}, maxsize) \cup {Item(key, value, t, 0)}
CacheSet(cache, key, value, t, ttl, maxsize) ==
    Evict({e \in cache : e.key # key /\ Live(e, t)}, maxsize) \cup {Item(key, value, t, ttl)}

\* cache.clear()
CacheClear == {}

\* get_access_token line 73: self.token_cache.get(keys.hashkey(self)), None
\* rendered as the falsy NoToken
MutTokenGetStale(cache, t) ==
    IF \E e \in cache : e.key = TheBot THEN CacheItem(cache, TheBot).value ELSE NoToken
TokenGet(cache, t) ==
    IF CacheHas(cache, TheBot, t) THEN CacheItem(cache, TheBot).value ELSE NoToken

\* get_access_token line 86: self.token_cache[keys.hashkey(self)] = token
MutTokenSetAppend(cache, token, t) == cache \cup {Item(TheBot, token, t, token_ttl)}
TokenSet(cache, token, t) == CacheSet(cache, TheBot, token, t, token_ttl, 1)

\* the age of the stored token, -1 when none is stored
TokenAge(cache, t) ==
    IF \E e \in cache : e.key = TheBot THEN t - CacheItem(cache, TheBot).at ELSE -1

\* ------------------------------------------------------- request records
NewReq(call, slot, endpoint, chat) ==
    [call |-> call, slot |-> slot, endpoint |-> endpoint, chat |-> chat,
     pc |-> "created",      \* created, tok_inflight, tok_sleep, op_inflight, op_sleep, done
     attempt |-> 0,         \* tenacity's attempt number of this request() call
     tattempt |-> 0,        \* attempt number of the nested no_auth token request
     wake |-> 0,            \* when the retry sleep ends
     token |-> NoToken,     \* the token of the Authorization header
     open_id |-> "",        \* get_user_detail: params={'open_ids': open_id}
     content |-> "",        \* send: the image_key of the payload's content, if any
     extra |-> NoHeaders,   \* the headers= argument of the caller
     sent |-> NoHeaders,    \* the headers of the last HTTP call to its endpoint
     tokSent |-> NoHeaders, \* the headers of the last call to the token endpoint
     outcome |-> NoOutcome,
     \* observations, as the HTTP mocks of tests/test_bot.py count them
     tokCalls |-> 0,        \* token-endpoint calls made for this request
     opCalls |-> 0,         \* calls made to the request's own endpoint
     opAns |-> <<>>,        \* the answers of the request's own endpoint
     opToks |-> <<>>,       \* the token each call to its own endpoint carried
     fetchSaw |-> {},       \* the tokens already rejected when its last token fetch was sent
     tokAns |-> <<>>,       \* the answers the token endpoint gave it
     startAge |-> -1,       \* age of the stored token when its first attempt read the cache
     hitAge |-> -1]         \* age of the stored token at its last cache hit

\* the tokens that a request carried when it was answered with the reserved
\* code (line 54)
RejectedOf(rq) ==
    {rq.opToks[i] : i \in {j \in 1..Len(rq.opAns) :
        rq.opAns[j].json /\ HasKeys(rq.opAns[j]) /\ rq.opAns[j].code = TOKEN_EXPIRED}}
Rejected == UNION {RejectedOf(reqs[r]) : r \in DOMAIN reqs}

\* request(), lines 41-46: the HTTP call with the Authorization header attached
SendOp(rq, tok) ==
    [rq EXCEPT !.pc = "op_inflight", !.token = tok, !.opCalls = @ + 1, !.wake = 0,
               !.sent = AuthHeaders(tok, rq.extra), !.opToks = Append(@, tok)]

\* get_access_token(), lines 78-84: self.post(url, no_auth=True, ...)
SendTok(rq) ==
    [rq EXCEPT !.pc = "tok_inflight", !.tattempt = @ + 1, !.tokCalls = @ + 1,
               !.wake = 0, !.tokSent = NoHeaders, !.fetchSaw = Rejected]

\* request() lines 27-46 with get_access_token() lines 72-84: one attempt, up to
\* its first HTTP call
BeginAttempt(rq, cache, t) ==
    LET tok == TokenGet(cache, t)
        r1 == [rq EXCEPT !.attempt = @ + 1, !.tattempt = 0,
                         !.startAge = IF rq.attempt = 0 THEN TokenAge(cache, t) ELSE @]
    IN  IF tok # NoToken
        THEN SendOp([r1 EXCEPT !.hitAge = TokenAge(cache, t)], tok)
        ELSE SendTok(r1)

\* request() lines 47-63: what a response body makes the attempt do
Classify(resp) ==
    IF ~resp.json THEN Raised("JSONDecodeError", 0, "")
    ELSE IF "code" \notin resp.keys THEN Raised("KeyError", 0, "code")
    ELSE IF "msg" \notin resp.keys THEN Raised("KeyError", 0, "msg")
    ELSE IF resp.code > 0
         THEN IF resp.code = TOKEN_EXPIRED
              THEN Raised("TokenExpiredError", resp.code, resp.msg)
              ELSE Raised("RequestError", resp.code, resp.msg)
         ELSE Returned(resp)

\* line 57: self.token_cache.clear() on the reserved code
MutCacheAfterKeep(out, cache) == cache
MutCacheAfterExpire(out, cache) ==
    IF out.kind = "err" /\ out.type = "TokenExpiredError"
    THEN {e \in cache : Live(e, now)} ELSE cache
CacheAfter(out, cache) ==
    IF out.kind = "err" /\ out.type = "TokenExpiredError" THEN CacheClear ELSE cache

\* the decorator, line 26: retry=retry_if_exception_type(TokenExpiredError)
ShouldRetry(out) == out.kind = "err" /\ out.type = "TokenExpiredError"

\* the decorator, lines 24-26: what tenacity does with the outcome of attempt n
MutRetryNoStop(out, n) == IF ~ShouldRetry(out) THEN "pass" ELSE "retry"
RetryStep(out, n) ==
    IF ~ShouldRetry(out) THEN "pass"
    ELSE IF n >= MaxAttempts THEN "stop" ELSE "retry"

\* tenacity without reraise=True: the last failure is wrapped in a RetryError
RetryError(out) == Raised("RetryError", 0, "RetryError")

\* what the (retried) request() call delivers once attempt n ended with out
Delivered(out, n) == IF RetryStep(out, n) = "stop" THEN RetryError(out) ELSE out

\* --------------------------------------------------------- call records
\* a top-level operation: request (a get/post on some endpoint), get_groups, or
\* send_to_groups
NoResult == [kind |-> "none", err |-> NoOutcome, value |-> <<>>]
ResultOk(v) == [kind |-> "ok", err |-> NoOutcome, value |-> v]
ResultErr(out) == [kind |-> "err", err |-> out, value |-> <<>>]

NewCall(kind, arg) ==
    [kind |-> kind, arg |-> arg,
     pc |-> "awaiting",     \* awaiting, resolving, gathering, done
     groups |-> <<>>,       \* send_to_groups: the resolved chat ids
     tasks |-> <<>>,        \* send_to_groups: the requests handed to asyncio.gather
     outer |-> NoResult,    \* the state of gather's future
     finished |-> <<>>,     \* gather's children in the order they ended: the order
                            \* in which the loop will run their done-callbacks
     counted |-> 0,         \* gather's nfinished: the done-callbacks that have run
     result |-> NoResult,   \* what the caller received
     image_key |-> "",      \* send_image: what upload_image returned
     looked |-> FALSE,      \* send_to_groups: get_groups was called
     detailed |-> <<>>,     \* send_to_groups: what get_groups returned
     pending |-> {}]        \* requests still in flight when the caller resumed

ReqIds == 1..Len(reqs)
CallIds == 1..Len(calls)

\* send_to_groups lines 119-126
MutResolveSorted(arg, detailed) ==
    CASE arg.kind = "none" -> [i \in 1..Len(detailed) |-> detailed[i].chat_id]
      [] arg.kind = "str" -> <<arg.id>>
      [] OTHER -> IF Len(arg.ids) = 2 /\ arg.ids[1] = "b" THEN <<arg.ids[2], arg.ids[1]>>
                  ELSE arg.ids
Resolve(arg, detailed) ==
    CASE arg.kind = "none" -> [i \in 1..Len(detailed) |-> detailed[i].chat_id]
      [] arg.kind = "str" -> <<arg.id>>
      [] OTHER -> arg.ids

\* send_to_groups lines 128-139: one self.post coroutine per resolved chat id
Tasks(c, groups) == [i \in 1..Len(groups) |-> NewReq(c, i, "send", groups[i])]

\* send_image line 177 into send_to_groups lines 128-139: the payloads carry
\* {'image_key': image_key}
MutPayloadTasksNoKey(c, groups, content) ==
    [i \in 1..Len(groups) |-> NewReq(c, i, "send", groups[i])]
PayloadTasks(c, groups, content) ==
    [i \in 1..Len(groups) |-> [NewReq(c, i, "send", groups[i]) EXCEPT !.content = content]]

\* the answers the endpoint of request rq can give
AnswersOf(rq) ==
    CASE rq.endpoint = "user" -> UserResponses(rq.open_id)
      [] rq.endpoint = "upload" -> UploadResponses
      [] OTHER -> ResponsesOf(rq.endpoint, rq.chat)

\* get_user_detail line 94: resp['data']['user_infos'][0]
UserOf(out) ==
    IF out.kind = "err" THEN ResultErr(out)
    ELSE IF out.resp.data = <<>> THEN ResultErr(Raised("KeyError", 0, "data"))
    ELSE ResultOk(out.resp.data[1])

\* upload_image line 167: resp['data']['image_key']
ImageKeyOf(out) ==
    IF out.kind = "err" THEN ResultErr(out)
    ELSE IF out.resp.data = <<>> THEN ResultErr(Raised("KeyError", 0, "data"))
    ELSE ResultOk(out.resp.data[1])

\* get_groups lines 99-100: resp['data']['groups']
MutGroupsOfEmpty(out) ==
    IF out.kind = "err" \/ out.resp.data = <<>> THEN ResultOk(<<>>)
    ELSE ResultOk(out.resp.data[1])
GroupsOf(out) ==
    IF out.kind = "err" THEN ResultErr(out)
    ELSE IF out.resp.data = <<>> THEN ResultErr(Raised("KeyError", 0, "data"))
    ELSE ResultOk(out.resp.data[1])

\* send_to_groups lines 128-141 once the groups are known: the tasks are created
\* and gathered; gather() of nothing is done at once
Gathering(cl, groups, base) ==
    IF groups = <<>>
    THEN [cl EXCEPT !.pc = "done", !.groups = groups, !.outer = ResultOk(<<>>),
                    !.result = ResultOk(<<>>)]
    ELSE [cl EXCEPT !.pc = "gathering", !.groups = groups,
                    !.tasks = [i \in 1..Len(groups) |-> base + i]]

\* asyncio.gather(*tasks), line 141: the done-callback of child r, which the
\* loop runs as a handle of its own after the child has ended; cl.counted
\* callbacks have run before it.  With return_exceptions left False the first
\* exception completes the outer future; otherwise the callback of the last
\* child completes it with the results in the order of the awaitables.
MutGatherReversed(cl, rs, r) ==
    IF cl.outer.kind # "none" THEN cl.outer
    ELSE IF rs[r].outcome.kind = "err" THEN ResultErr(rs[r].outcome)
    ELSE IF cl.counted + 1 = Len(cl.tasks)
         THEN ResultOk([i \in 1..Len(cl.tasks) |->
                            rs[cl.tasks[Len(cl.tasks) + 1 - i]].outcome.resp])
         ELSE cl.outer
GatherCallback(cl, rs, r) ==
    IF cl.outer.kind # "none" THEN cl.outer
    ELSE IF rs[r].outcome.kind = "err" THEN ResultErr(rs[r].outcome)
    ELSE IF cl.counted + 1 = Len(cl.tasks)
         THEN ResultOk([i \in 1..Len(cl.tasks) |-> rs[cl.tasks[i]].outcome.resp])
         ELSE cl.outer

\* the request r has ended with out: the code that awaits it goes on
Finish(r, rq, out) ==
    LET c == rq.call
        cl == calls[c]
        rs == [reqs EXCEPT ![r] = [rq EXCEPT !.pc = "done", !.outcome = out]]
        gr == GroupsOf(out)
        ur == UserOf(out)
        up == ImageKeyOf(out)
        \* send_image line 177: send_to_groups('image', {'image_key': ...}, groups=arg)
        ci == [cl EXCEPT !.image_key = up.value, !.looked = (cl.arg.kind = "none")]
        hit == CacheHas(groups_cache, TheBot, now)
        cached == IF hit THEN CacheItem(groups_cache, TheBot).value ELSE <<>>
    IN  CASE rq.endpoint = "op" ->
                \* get/post, awaited by the caller itself
                /\ reqs' = rs
                /\ calls' = [calls EXCEPT ![c] = [cl EXCEPT !.pc = "done",
                        !.result = IF out.kind = "ok" THEN ResultOk(<<out.resp>>)
                                   ELSE ResultErr(out)]]
                /\ UNCHANGED <<groups_cache, user_cache>>
          [] rq.endpoint = "groups" ->
                \* the asyncache wrapper of get_groups stores what the call returned
                /\ groups_cache' = IF gr.kind = "ok"
                                   THEN CacheSet(groups_cache, TheBot, gr.value, now,
                                                 GroupsTTL, GroupsCacheSize)
                                   ELSE groups_cache
                /\ UNCHANGED user_cache
                /\ IF cl.kind # "get_groups" /\ gr.kind = "ok"
                   THEN /\ reqs' = rs \o PayloadTasks(c, Resolve(cl.arg, gr.value),
                                                      cl.image_key)
                        /\ calls' = [calls EXCEPT ![c] =
                                Gathering([cl EXCEPT !.detailed = gr.value],
                                          Resolve(cl.arg, gr.value), Len(rs))]
                   ELSE /\ reqs' = rs
                        /\ calls' = [calls EXCEPT ![c] = [cl EXCEPT !.pc = "done", !.result = gr]]
          [] rq.endpoint = "user" ->
                \* the asyncache wrapper of get_user_detail stores what the call returned
                /\ user_cache' = IF ur.kind = "ok"
                                 THEN CacheSet(user_cache, UserKey(TheBot, rq.open_id),
                                               ur.value, now, UserTTL, UserCacheSize)
                                 ELSE user_cache
                /\ reqs' = rs
                /\ calls' = [calls EXCEPT ![c] = [cl EXCEPT !.pc = "done", !.result = ur]]
                /\ UNCHANGED groups_cache
          [] rq.endpoint = "upload" ->
                \* upload_image returns into send_image, which goes on to
                \* send_to_groups up to its first await
                /\ UNCHANGED <<groups_cache, user_cache>>
                /\ IF up.kind = "err"
                   THEN /\ reqs' = rs
                        /\ calls' = [calls EXCEPT ![c] = [cl EXCEPT !.pc = "done", !.result = up]]
                   ELSE IF cl.arg.kind = "none" /\ ~hit
                   THEN /\ reqs' = Append(rs, BeginAttempt(NewReq(c, 0, "groups", ""),
                                                          token_cache, now))
                        /\ calls' = [calls EXCEPT ![c] = [ci EXCEPT !.pc = "resolving"]]
                   ELSE /\ reqs' = rs \o PayloadTasks(c, Resolve(cl.arg, cached), up.value)
                        /\ calls' = [calls EXCEPT ![c] =
                                Gathering([ci EXCEPT !.detailed =
                                                IF cl.arg.kind = "none" THEN cached ELSE <<>>],
                                          Resolve(cl.arg, cached), Len(rs))]
          [] OTHER ->
                \* a child of asyncio.gather: the task ends and its
                \* done-callback is queued
                /\ reqs' = rs
                /\ calls' = [calls EXCEPT ![c] = [cl EXCEPT !.finished = Append(@, r)]]
                /\ UNCHANGED <<groups_cache, user_cache>>

\* __init__ line 22: token_ttl or timedelta(hours=1).seconds
InitTTL(arg) == IF arg = 0 THEN DefaultTTL ELSE arg

\* the state after FeishuBot(app_id, app_secret, base_url, token_ttl=arg)
InitWith(args) ==
    /\ token_ttl \in {InitTTL(a) : a \in args}
    /\ now = 0
    /\ token_cache = {}
    /\ groups_cache = {}
    /\ user_cache = {}
    /\ reqs = <<>>
    /\ calls = <<>>
    /\ faults = 0
    /\ tokenCalls = 0
    /\ firstStore = -1

Init == InitWith({FanTTL})
SeqInit == InitWith(0..MaxSeqTTL)

\* the caller starts its next operation once the one before has returned or raised
CanStart(lim) == Len(calls) < lim.calls /\ \A c \in CallIds : calls[c].pc = "done"

\* the number of token-endpoint calls a step of request r added
TokDelta(rq, rq2) == rq2.tokCalls - rq.tokCalls

\* await bot.get(...) / bot.post(...) on an authenticated endpoint
StartRequest(lim) ==
    /\ CanStart(lim) /\ Len(reqs) < lim.reqs
    /\ LET c == Len(calls) + 1
           rq == BeginAttempt(NewReq(c, 0, "op", ""), token_cache, now)
       IN  /\ calls' = Append(calls, NewCall("request", NoneArg))
           /\ reqs' = Append(reqs, rq)
           /\ tokenCalls' = tokenCalls + rq.tokCalls
    /\ UNCHANGED <<now, token_ttl, token_cache, groups_cache, user_cache, faults, firstStore>>

\* await bot.get(..., headers=extra) / bot.post(..., headers=extra)
StartRequestWith(extra, lim) ==
    /\ CanStart(lim) /\ Len(reqs) < lim.reqs
    /\ LET c == Len(calls) + 1
           rq == BeginAttempt([NewReq(c, 0, "op", "") EXCEPT !.extra = extra],
                              token_cache, now)
       IN  /\ calls' = Append(calls, NewCall("request", NoneArg))
           /\ reqs' = Append(reqs, rq)
           /\ tokenCalls' = tokenCalls + rq.tokCalls
    /\ UNCHANGED <<now, token_ttl, token_cache, groups_cache, user_cache, faults, firstStore>>

\* await bot.get_groups(): the cached list, or GET /chat/v4/list
StartGetGroups(lim) ==
    /\ CanStart(lim)
    /\ LET c == Len(calls) + 1
           rq == BeginAttempt(NewReq(c, 0, "groups", ""), token_cache, now)
       IN  IF CacheHas(groups_cache, TheBot, now)
           THEN /\ calls' = Append(calls, [NewCall("get_groups", NoneArg) EXCEPT
                        !.pc = "done",
                        !.result = ResultOk(CacheItem(groups_cache, TheBot).value)])
                /\ UNCHANGED <<reqs, tokenCalls>>
           ELSE /\ Len(reqs) < lim.reqs
                /\ calls' = Append(calls, NewCall("get_groups", NoneArg))
                /\ reqs' = Append(reqs, rq)
                /\ tokenCalls' = tokenCalls + rq.tokCalls
    /\ UNCHANGED <<now, token_ttl, token_cache, groups_cache, user_cache, faults, firstStore>>

\* await bot.get_user_detail(u): the cached detail, or GET /contact/v1/user/batch_get
StartGetUserDetail(u, lim) ==
    /\ CanStart(lim)
    /\ LET c == Len(calls) + 1
           rq == BeginAttempt([NewReq(c, 0, "user", "") EXCEPT !.open_id = u],
                              token_cache, now)
           k == UserKey(TheBot, u)
           cl == [NewCall("get_user_detail", NoneArg) EXCEPT !.arg.id = u]
       IN  IF CacheHas(user_cache, k, now)
           THEN /\ calls' = Append(calls, [cl EXCEPT
                        !.pc = "done",
                        !.result = ResultOk(CacheItem(user_cache, k).value)])
                /\ UNCHANGED <<reqs, tokenCalls>>
           ELSE /\ Len(reqs) < lim.reqs
                /\ calls' = Append(calls, cl)
                /\ reqs' = Append(reqs, rq)
                /\ tokenCalls' = tokenCalls + rq.tokCalls
    /\ UNCHANGED <<now, token_ttl, token_cache, groups_cache, user_cache, faults, firstStore>>

\* another FeishuBot instance of the process runs get_groups, misses the
\* cache, which is the one TTLCache of the class, under its own key, and
\* its GET returns gl: the wrapper stores gl under the key of that instance.
\* The token cache of the other instance is an object of its own.
PeerGetGroups(gl) ==
    /\ ~CacheHas(groups_cache, Peer, now)
    /\ groups_cache' = CacheSet(groups_cache, Peer, gl, now, GroupsTTL, GroupsCacheSize)
    /\ UNCHANGED <<now, token_ttl, token_cache, user_cache, reqs, calls, faults,
                   tokenCalls, firstStore>>

\* await bot.send_image(image_url, groups=arg): upload_image starts the GET of
\* the image
StartSendImage(arg, lim) ==
    /\ CanStart(lim)
    /\ calls' = Append(calls, [NewCall("send_image", arg) EXCEPT !.pc = "fetching"])
    /\ UNCHANGED <<now, token_ttl, token_cache, groups_cache, user_cache, reqs, faults,
                   tokenCalls, firstStore>>

\* upload_image lines 157-165: the image bytes have arrived and the upload
\* request starts, or the GET of the image has raised
ImageFetched(c, ok, lim) ==
    /\ calls[c].pc = "fetching"
    /\ IF ok
       THEN /\ Len(reqs) < lim.reqs
            /\ LET rq == BeginAttempt(NewReq(c, 0, "upload", ""), token_cache, now)
               IN  /\ reqs' = Append(reqs, rq)
                   /\ tokenCalls' = tokenCalls + rq.tokCalls
            /\ calls' = [calls EXCEPT ![c].pc = "uploading"]
       ELSE /\ calls' = [calls EXCEPT ![c] = [@ EXCEPT !.pc = "done",
                            !.result = ResultErr(Raised("ClientError", 0, "image"))]]
            /\ UNCHANGED <<reqs, tokenCalls>>
    /\ UNCHANGED <<now, token_ttl, token_cache, groups_cache, user_cache, faults, firstStore>>

\* await bot.send_to_groups(msg_type, content, groups=arg)
StartSend(arg, lim) ==
    /\ CanStart(lim)
    /\ LET c == Len(calls) + 1
           rq == BeginAttempt(NewReq(c, 0, "groups", ""), token_cache, now)
           hit == CacheHas(groups_cache, TheBot, now)
           detailed == IF arg.kind = "none" /\ hit
                       THEN CacheItem(groups_cache, TheBot).value ELSE <<>>
           cl == [NewCall("send_to_groups", arg) EXCEPT !.looked = (arg.kind = "none"),
                                                        !.detailed = detailed]
           groups == Resolve(arg, detailed)
       IN  IF arg.kind = "none" /\ ~hit
           THEN /\ Len(reqs) < lim.reqs
                /\ calls' = Append(calls, [cl EXCEPT !.pc = "resolving"])
                /\ reqs' = Append(reqs, rq)
                /\ tokenCalls' = tokenCalls + rq.tokCalls
           ELSE /\ Len(reqs) + Len(groups) <= lim.reqs
                /\ reqs' = reqs \o Tasks(c, groups)
                /\ calls' = Append(calls, Gathering(cl, groups, Len(reqs)))
                /\ UNCHANGED tokenCalls
    /\ UNCHANGED <<now, token_ttl, token_cache, groups_cache, user_cache, faults, firstStore>>

\* the event loop runs a task that gather created: its first attempt
TaskStart(r) ==
    /\ reqs[r].pc = "created"
    /\ \A q \in 1..(r - 1) : reqs[q].pc # "created"
    /\ LET rq == BeginAttempt(reqs[r], token_cache, now)
       IN  /\ reqs' = [reqs EXCEPT ![r] = rq]
           /\ tokenCalls' = tokenCalls + TokDelta(reqs[r], rq)
    /\ UNCHANGED <<now, token_ttl, token_cache, groups_cache, user_cache, calls, faults, firstStore>>

\* the platform may still answer with something other than code 0
CanAnswer(resp, lim) == IsFault(resp) => faults < lim.faults
FaultsAfter(resp) == IF IsFault(resp) THEN faults + 1 ELSE faults

\* the token endpoint answers the nested no_auth request of r
TokenResponse(r, resp, lim) ==
    /\ reqs[r].pc = "tok_inflight"
    /\ CanAnswer(resp, lim)
    /\ faults' = FaultsAfter(resp)
    /\ LET rq == [reqs[r] EXCEPT !.tokAns = Append(@, resp)]
           out == Classify(resp)
           cache1 == CacheAfter(out, token_cache)
           step == RetryStep(out, rq.tattempt)
           \* what get_access_token() raises into the enclosing attempt
           inner == IF out.kind = "ok" /\ resp.data = <<>>
                    THEN Raised("KeyError", 0, "tenant_access_token")
                    ELSE Delivered(out, rq.tattempt)
       IN  IF step = "retry"
           THEN /\ reqs' = [reqs EXCEPT ![r] = [rq EXCEPT !.pc = "tok_sleep",
                                                          !.wake = now + RetryWait]]
                /\ token_cache' = cache1
                /\ UNCHANGED <<calls, groups_cache, user_cache, tokenCalls, firstStore>>
           ELSE IF inner.kind = "ok"
           THEN \* lines 85-88, then lines 36-46 of the enclosing attempt
                /\ token_cache' = TokenSet(token_cache, resp.data[1], now)
                /\ firstStore' = IF firstStore < 0 THEN now ELSE firstStore
                /\ reqs' = [reqs EXCEPT ![r] = SendOp(rq, resp.data[1])]
                /\ UNCHANGED <<calls, groups_cache, user_cache, tokenCalls>>
           ELSE IF RetryStep(inner, rq.attempt) = "retry"
           THEN /\ reqs' = [reqs EXCEPT ![r] = [rq EXCEPT !.pc = "op_sleep",
                                                          !.wake = now + RetryWait]]
                /\ token_cache' = cache1
                /\ UNCHANGED <<calls, groups_cache, user_cache, tokenCalls, firstStore>>
           ELSE /\ token_cache' = cache1
                /\ Finish(r, rq, Delivered(inner, rq.attempt))
                /\ UNCHANGED <<tokenCalls, firstStore>>
    /\ UNCHANGED <<now, token_ttl>>

\* the retry sleep of the nested token request is over: it is sent again
TokenRetry(r) ==
    /\ reqs[r].pc = "tok_sleep"
    /\ now >= reqs[r].wake
    /\ reqs' = [reqs EXCEPT ![r] = SendTok(@)]
    /\ tokenCalls' = tokenCalls + 1
    /\ UNCHANGED <<now, token_ttl, token_cache, groups_cache, user_cache, calls, faults, firstStore>>

\* the destination list the platform returns is short enough for the run
Fits(r, resp, lim) ==
    LET cl == calls[reqs[r].call]
        hit == CacheHas(groups_cache, TheBot, now)
        cached == IF hit THEN CacheItem(groups_cache, TheBot).value ELSE <<>>
    IN  /\ (reqs[r].endpoint = "groups" /\ cl.kind # "get_groups" /\ ~IsFault(resp))
            => Len(reqs) + Len(resp.data[1]) <= lim.reqs
        /\ (reqs[r].endpoint = "upload" /\ ~IsFault(resp) /\ resp.data # <<>>)
            => Len(reqs) + (IF cl.arg.kind = "none" /\ ~hit THEN 1
                            ELSE Len(Resolve(cl.arg, cached))) <= lim.reqs

\* the platform answers the authenticated request r
OpResponse(r, resp, lim) ==
    /\ reqs[r].pc = "op_inflight"
    /\ CanAnswer(resp, lim)
    /\ Fits(r, resp, lim)
    /\ faults' = FaultsAfter(resp)
    /\ LET rq == [reqs[r] EXCEPT !.opAns = Append(@, resp)]
           out == Classify(resp)
       IN  /\ token_cache' = CacheAfter(out, token_cache)
           /\ IF RetryStep(out, rq.attempt) = "retry"
              THEN /\ reqs' = [reqs EXCEPT ![r] = [rq EXCEPT !.pc = "op_sleep",
                                                             !.wake = now + RetryWait]]
                   /\ UNCHANGED <<calls, groups_cache, user_cache>>
              ELSE Finish(r, rq, Delivered(out, rq.attempt))
    \* a request the caller starts in the same step may go to the token endpoint
    /\ tokenCalls' = tokenCalls + (IF Len(reqs') > Len(reqs)
                                   THEN reqs'[Len(reqs')].tokCalls ELSE 0)
    /\ UNCHANGED <<now, token_ttl, firstStore>>

\* the retry sleep of request r is over: its next attempt
OpRetry(r) ==
    /\ reqs[r].pc = "op_sleep"
    /\ now >= reqs[r].wake
    /\ LET rq == BeginAttempt(reqs[r], token_cache, now)
       IN  /\ reqs' = [reqs EXCEPT ![r] = rq]
           /\ tokenCalls' = tokenCalls + TokDelta(reqs[r], rq)
    /\ UNCHANGED <<now, token_ttl, token_cache, groups_cache, user_cache, calls, faults, firstStore>>

\* the loop runs the next done-callback of the children of gather
GatherDone(c) ==
    /\ calls[c].counted < Len(calls[c].finished)
    /\ LET cl == calls[c]
           r == cl.finished[cl.counted + 1]
       IN  calls' = [calls EXCEPT ![c] = [cl EXCEPT !.counted = @ + 1,
                                                    !.outer = GatherCallback(cl, reqs, r)]]
    /\ UNCHANGED <<now, token_ttl, token_cache, groups_cache, user_cache, reqs, faults, tokenCalls, firstStore>>

\* gather's future is done: send_to_groups resumes and returns or raises
GatherResume(c) ==
    /\ calls[c].pc = "gathering"
    /\ calls[c].outer.kind # "none"
    /\ calls' = [calls EXCEPT ![c] = [@ EXCEPT !.pc = "done", !.result = calls[c].outer,
            !.pending = {calls[c].tasks[i] : i \in {j \in 1..Len(calls[c].tasks) :
                                                     reqs[calls[c].tasks[j]].pc # "done"}}]]
    /\ UNCHANGED <<now, token_ttl, token_cache, groups_cache, user_cache, reqs, faults, tokenCalls, firstStore>>

\* a second passes
Tick(lim) ==
    /\ now < lim.time
    /\ now' = now + 1
    /\ UNCHANGED <<token_ttl, token_cache, groups_cache, user_cache, reqs, calls, faults, tokenCalls, firstStore>>

Next ==
    \/ StartRequest(FanLimits)
    \/ StartGetGroups(FanLimits)
    \/ \E arg \in GroupsArgs : StartSend(arg, FanLimits)
    \/ \E r \in ReqIds : TaskStart(r)
    \/ \E r \in ReqIds : \E resp \in TokenResponses : TokenResponse(r, resp, FanLimits)
    \/ \E r \in ReqIds : TokenRetry(r)
    \/ \E r \in ReqIds : \E resp \in ResponsesOf(reqs[r].endpoint, reqs[r].chat) :
            OpResponse(r, resp, FanLimits)
    \/ \E r \in ReqIds : OpRetry(r)
    \/ \E c \in CallIds : GatherDone(c)
    \/ \E c \in CallIds : GatherResume(c)
    \/ Tick(FanLimits)

Spec == Init /\ [][Next]_vars

\* one get/post after the other
SeqNext ==
    \/ StartRequest(SeqLimits)
    \/ \E r \in ReqIds : \E resp \in TokenResponses : TokenResponse(r, resp, SeqLimits)
    \/ \E r \in ReqIds : TokenRetry(r)
    \/ \E r \in ReqIds : \E resp \in OpResponses : OpResponse(r, resp, SeqLimits)
    \/ \E r \in ReqIds : OpRetry(r)
    \/ Tick(SeqLimits)

SeqSpec == SeqInit /\ [][SeqNext]_vars

\* get/post calls with a headers= argument, one after the other
HdrNext ==
    \/ \E extra \in ExtraHeaders : StartRequestWith(extra, HdrLimits)
    \/ \E r \in ReqIds : \E resp \in TokenResponses : TokenResponse(r, resp, HdrLimits)
    \/ \E r \in ReqIds : TokenRetry(r)
    \/ \E r \in ReqIds : \E resp \in OpResponses : OpResponse(r, resp, HdrLimits)
    \/ \E r \in ReqIds : OpRetry(r)
    \/ Tick(HdrLimits)

HdrSpec == Init /\ [][HdrNext]_vars

\* get_groups and get_user_detail, one lookup after the other, with another
\* instance of the class at work in the same process
CacheNext ==
    \/ StartGetGroups(CacheLimits)
    \/ \E u \in Users : StartGetUserDetail(u, CacheLimits)
    \/ \E gl \in GroupLists : PeerGetGroups(gl)
    \/ \E r \in ReqIds : \E resp \in TokenResponses : TokenResponse(r, resp, CacheLimits)
    \/ \E r \in ReqIds : TokenRetry(r)
    \/ \E r \in ReqIds : \E resp \in AnswersOf(reqs[r]) : OpResponse(r, resp, CacheLimits)
    \/ \E r \in ReqIds : OpRetry(r)
    \/ Tick(CacheLimits)

CacheSpec == Init /\ [][CacheNext]_vars

\* the groups arguments given to send_image
ImageArgs == {NoneArg, StrArg("a"), ListArg(<<"b", "a">>)}

\* send_image
ImgNext ==
    \/ \E arg \in ImageArgs : StartSendImage(arg, ImgLimits)
    \/ \E c \in CallIds : \E ok \in BOOLEAN : ImageFetched(c, ok, ImgLimits)
    \/ \E r \in ReqIds : TaskStart(r)
    \/ \E r \in ReqIds : \E resp \in TokenResponses : TokenResponse(r, resp, ImgLimits)
    \/ \E r \in ReqIds : TokenRetry(r)
    \/ \E r \in ReqIds : \E resp \in AnswersOf(reqs[r]) : OpResponse(r, resp, ImgLimits)
    \/ \E r \in ReqIds : OpRetry(r)
    \/ \E c \in CallIds : GatherDone(c)
    \/ \E c \in CallIds : GatherResume(c)
    \/ Tick(ImgLimits)

ImgSpec == Init /\ [][ImgNext]_vars

\* some retry sleep (wait_fixed(1)) has not run out yet
Sleeping == \E r \in ReqIds : reqs[r].pc \in {"tok_sleep", "op_sleep"} /\ now < reqs[r].wake

\* one get/post after the other, each run to its end: the event loop runs
\* what is ready, a sleep runs out, and the platform answers every call
TermNext ==
    \/ StartRequest(TermLimits)
    \/ \E r \in ReqIds : \E resp \in TokenResponses : TokenResponse(r, resp, TermLimits)
    \/ \E r \in ReqIds : TokenRetry(r)
    \/ \E r \in ReqIds : \E resp \in OpResponses : OpResponse(r, resp, TermLimits)
    \/ \E r \in ReqIds : OpRetry(r)
    \/ (Sleeping /\ Tick(TermLimits))

TermSpec == SeqInit /\ [][TermNext]_vars /\ WF_vars(TermNext)

\* ============================================================ properties
\* every answer of the sequence is a decodable envelope with code 0
\* the last element of a non-empty sequence
Last(seq) == seq[Len(seq)]
\* this step gave request r an answer of its endpoint / of the token endpoint
GotOpAnswer(r) == Len(reqs'[r].opAns) = Len(reqs[r].opAns) + 1
GotTokAnswer(r) == Len(reqs'[r].tokAns) = Len(reqs[r].tokAns) + 1
\* the body is an envelope: it decodes and has its code and msg
IsEnvelope(resp) == resp.json /\ HasKeys(resp)
AllCodeZero(ans) == \A i \in 1..Len(ans) : IsEnvelope(ans[i]) /\ ans[i].code = 0
\* the answers of the sequence carry exactly these codes
HasCodes(ans, codes) ==
    /\ Len(ans) = Len(codes)
    /\ \A i \in 1..Len(ans) : IsEnvelope(ans[i]) /\ ans[i].code = codes[i]

\* ---------------------------------------------------------------- C1
\* the case of C1: a get/post started with no usable token stored, whose own
\* endpoint answered 99991663 and then 0, while the token endpoint answered 0
C1_Case(r) ==
    /\ reqs[r].pc = "done"
    /\ reqs[r].startAge = -1
    /\ HasCodes(reqs[r].opAns, <<TOKEN_EXPIRED, 0>>)
    /\ AllCodeZero(reqs[r].tokAns)

\* C1: such a call makes exactly 2 token-endpoint calls and exactly 2 attempts at
\* its endpoint, the second attempt carries the token the second token call
\* returned, and the caller receives the envelope of the second attempt
C1_RefreshThenSuccess ==
    \A r \in ReqIds : C1_Case(r) =>
        /\ reqs[r].tokCalls = 2
        /\ Len(reqs[r].tokAns) = 2
        /\ reqs[r].opCalls = 2
        /\ reqs[r].attempt = 2
        /\ reqs[r].token = reqs[r].tokAns[2].data[1]
        /\ reqs[r].outcome = Returned(reqs[r].opAns[2])
        /\ calls[reqs[r].call].result = ResultOk(<<reqs[r].opAns[2]>>)

\* a call of the case of C1 has ended, its two tokens differing
C1_Witness ==
    \E r \in ReqIds :
        /\ C1_Case(r)
        /\ Len(reqs[r].tokAns) = 2
        /\ reqs[r].tokAns[1].data # reqs[r].tokAns[2].data

\* ---------------------------------------------------------------- C2
\* C2 as claimed: when every attempt at the endpoint is answered 99991663 (the
\* token endpoint answering 0), the call makes exactly 3 attempts and then fails with a TokenExpiredError that
\* carries code 99991663 and the platform's message
C2_RetryCapRaisesTokenExpired ==
    \A r \in ReqIds :
        (/\ reqs[r].pc = "done"
         /\ reqs[r].opAns # <<>>
         /\ \A i \in 1..Len(reqs[r].opAns) :
                IsEnvelope(reqs[r].opAns[i]) /\ reqs[r].opAns[i].code = TOKEN_EXPIRED
         /\ AllCodeZero(reqs[r].tokAns))
        => /\ reqs[r].opCalls = MaxAttempts
           /\ reqs[r].outcome =
                Raised("TokenExpiredError", TOKEN_EXPIRED, reqs[r].opAns[MaxAttempts].msg)

\* ---------------------------------------------------------------- C3
\* C3 as claimed: an answer with a non-zero code other than 99991663 makes the
\* call fail with a RequestError carrying that code and message, after exactly
\* one attempt at the endpoint, whatever the message
C3_OtherCodeFailsOnce ==
    \A r \in ReqIds :
        (/\ reqs[r].opAns # <<>>
         /\ IsEnvelope(reqs[r].opAns[1])
         /\ reqs[r].opAns[1].code \notin {0, TOKEN_EXPIRED})
        => /\ reqs[r].pc = "done"
           /\ reqs[r].opCalls = 1
           /\ reqs[r].attempt = 1
           /\ reqs[r].outcome =
                Raised("RequestError", reqs[r].opAns[1].code, reqs[r].opAns[1].msg)

\* ---------------------------------------------------------------- C4
\* the case of C4: every answer so far had code 0 and less than the TTL has
\* passed since the first token was stored, so every call so far was made
\* within that window
C4_Case == faults = 0 /\ firstStore >= 0 /\ now < firstStore + token_ttl

\* C4: the sequential calls made so far have then called the token endpoint
\* exactly once in total, each has made one attempt at most, and every call
\* after the first carries the token the first one stored
C4_TokenFetchedOnce ==
    C4_Case =>
        /\ tokenCalls = 1
        /\ reqs[1].tokCalls = 1
        /\ \A r \in ReqIds :
            /\ reqs[r].opCalls = 1
            /\ reqs[r].token = reqs[1].tokAns[1].data[1]
            /\ r > 1 => reqs[r].tokCalls = 0

\* three calls have ended inside the window of the first token, time having passed
C4_Witness ==
    /\ C4_Case
    /\ Len(reqs) >= 3
    /\ \A r \in ReqIds : reqs[r].pc = "done"
    /\ now > firstStore

\* ---------------------------------------------------------------- C5
\* request r was made when the stored token had reached its TTL
C5_Expired(r) == reqs[r].pc = "done" /\ reqs[r].startAge >= token_ttl
\* request q was made while the stored token was younger than its TTL
C5_Within(q) == reqs[q].pc = "done" /\ reqs[q].startAge >= 0 /\ reqs[q].startAge < token_ttl

\* C5: with every answer of code 0, a call made once the TTL of the stored token
\* has elapsed makes exactly one token-endpoint call and carries the token it
\* returned, and the calls that follow within the new window make no
\* token-endpoint call and carry that same token
C5_RefetchAfterTTL ==
    faults = 0 =>
        \A r \in ReqIds : C5_Expired(r) =>
            /\ reqs[r].tokCalls = 1
            /\ reqs[r].opCalls = 1
            /\ reqs[r].token = reqs[r].tokAns[1].data[1]
            /\ \A q \in ReqIds :
                (q > r /\ \A p \in (r + 1)..q : C5_Within(p))
                => reqs[q].tokCalls = 0 /\ reqs[q].token = reqs[r].token

\* a call refetched after the TTL, with another token than before, and the call
\* after it reused the new token
C5_Witness ==
    /\ faults = 0
    /\ \E r \in ReqIds :
        /\ r > 1 /\ r + 1 \in ReqIds
        /\ C5_Expired(r) /\ C5_Within(r + 1)
        /\ reqs[r].token # reqs[r - 1].token

\* ---------------------------------------------------------------- C6
\* C6: the token cache never holds more than one item; a token that
\* get_access_token read from the cache was stored less than the TTL before,
\* and a request that found the stored token at or past its TTL fetched one
C6_NoStaleToken ==
    /\ Cardinality(token_cache) <= 1
    /\ \A r \in ReqIds :
        /\ reqs[r].hitAge < token_ttl
        /\ reqs[r].startAge >= token_ttl => reqs[r].tokCalls >= 1 /\ reqs[r].hitAge = -1

\* one request was served from the cache and another found the stored token at
\* its TTL exactly
C6_Witness ==
    /\ \E r \in ReqIds : reqs[r].hitAge >= 0
    /\ \E r \in ReqIds : reqs[r].startAge = token_ttl /\ reqs[r].pc = "done"

\* ------------------------------------------------------------ C7 .. C10
\* call c is a send_to_groups call
IsSend(c) == calls[c].kind = "send_to_groups"
\* the requests that call c handed to asyncio.gather
Children(c) == {r \in ReqIds : reqs[r].call = c /\ reqs[r].endpoint = "send"}
\* child r has ended by raising / by returning an envelope
ChildFailed(r) == reqs[r].pc = "done" /\ reqs[r].outcome.kind = "err"
ChildOk(r) == reqs[r].pc = "done" /\ reqs[r].outcome.kind = "ok"

\* C7: a send_to_groups call that has completed, one of whose sends failed and
\* another succeeded, gave its caller one outcome per destination, the
\* envelope of each successful send in the slot of its destination
C7_OneOutcomePerDestination ==
    \A c \in CallIds :
        (/\ IsSend(c) /\ calls[c].pc = "done"
         /\ \E r \in Children(c) : ChildFailed(r) /\ reqs[r].outcome.type = "RequestError"
         /\ \E r \in Children(c) : ChildOk(r) /\ AllCodeZero(reqs[r].opAns))
        => /\ calls[c].result.kind = "ok"
           /\ Len(calls[c].result.value) = Len(calls[c].groups)
           /\ \A i \in 1..Len(calls[c].tasks) :
                ChildOk(calls[c].tasks[i])
                => calls[c].result.value[i] = reqs[calls[c].tasks[i]].outcome.resp

\* C8: when send_to_groups has completed towards its caller, none of the
\* requests it started is still in flight
C8_JoinAllBarrier ==
    \A c \in CallIds :
        (IsSend(c) /\ calls[c].pc = "done") => calls[c].pending = {}

\* every send of call c has ended and every answer of the send endpoint had code 0
C9_Case(c) ==
    /\ IsSend(c) /\ calls[c].pc = "done" /\ calls[c].groups # <<>>
    /\ \A r \in Children(c) : ChildOk(r) /\ AllCodeZero(reqs[r].opAns)

\* C9: a fan-out whose sends all succeed called the send endpoint once per
\* destination, with the chat_id of that destination, and returned one result
\* per destination, the i-th being the answer to the send for the i-th
\* destination
C9_ResultsInOrder ==
    \A c \in CallIds : C9_Case(c) =>
        LET cl == calls[c]
            n == Len(cl.groups)
        IN  /\ Cardinality(Children(c)) = n
            /\ Len(cl.tasks) = n
            /\ cl.result.kind = "ok"
            /\ Len(cl.result.value) = n
            /\ \A i \in 1..n :
                /\ cl.tasks[i] \in Children(c)
                /\ reqs[cl.tasks[i]].chat = cl.groups[i]
                /\ reqs[cl.tasks[i]].opCalls = 1
                /\ cl.result.value[i] = reqs[cl.tasks[i]].opAns[1]
                /\ cl.result.value[i].data = <<cl.groups[i]>>
            /\ \A i, j \in 1..n : cl.tasks[i] = cl.tasks[j] => i = j

\* a fan-out to two different destinations returned its two results
C9_Witness ==
    \E c \in CallIds :
        /\ C9_Case(c)
        /\ Len(calls[c].groups) = 2
        /\ calls[c].groups[1] # calls[c].groups[2]
        /\ Len(calls[c].result.value) = 2

\* call c has resolved its destinations
C10_Resolved(c) == IsSend(c) /\ (calls[c].pc = "gathering" \/ calls[c].outer.kind # "none")
\* the requests call c made to the destination-list endpoint
C10_Lookups(c) == {r \in ReqIds : reqs[r].call = c /\ reqs[r].endpoint = "groups"}

\* C10: a string resolves to the list of that one id, a list to itself, both
\* without a lookup of the destination list; no argument resolves to the
\* chat_id of every entry get_groups returned, in order; and the send requests
\* of the call are one per resolved id, in order
C10_Resolution ==
    \A c \in CallIds : C10_Resolved(c) =>
        LET cl == calls[c]
        IN  /\ cl.arg.kind = "str" =>
                cl.groups = <<cl.arg.id>> /\ ~cl.looked /\ C10_Lookups(c) = {}
            /\ cl.arg.kind = "list" =>
                cl.groups = cl.arg.ids /\ ~cl.looked /\ C10_Lookups(c) = {}
            /\ cl.arg.kind = "none" =>
                /\ cl.looked
                /\ Len(cl.groups) = Len(cl.detailed)
                /\ \A i \in 1..Len(cl.groups) : cl.groups[i] = cl.detailed[i].chat_id
                /\ \A r \in C10_Lookups(c) :
                        reqs[r].pc = "done" /\ cl.detailed = reqs[r].outcome.resp.data[1]
                /\ C10_Lookups(c) = {} =>
                        \E q \in ReqIds : /\ reqs[q].endpoint = "groups" /\ ChildOk(q)
                                          /\ reqs[q].call < c
                                          /\ reqs[q].outcome.resp.data # <<>>
                                          /\ cl.detailed = reqs[q].outcome.resp.data[1]
            /\ Cardinality(Children(c)) = Len(cl.groups)
            /\ Len(cl.tasks) = Len(cl.groups)
            /\ \A i \in 1..Len(cl.groups) :
                /\ cl.tasks[i] \in Children(c)
                /\ reqs[cl.tasks[i]].chat = cl.groups[i]
                /\ reqs[cl.tasks[i]].slot = i
            /\ \A i, j \in 1..Len(cl.groups) : cl.tasks[i] = cl.tasks[j] => i = j

\* one call resolved no argument to the two ids get_groups returned, another
\* was given a list
C10_Witness ==
    /\ \E c \in CallIds :
        /\ C10_Resolved(c) /\ calls[c].arg.kind = "none"
        /\ Len(calls[c].groups) = 2 /\ calls[c].groups[1] # calls[c].groups[2]
    /\ \E c \in CallIds :
        C10_Resolved(c) /\ calls[c].arg.kind = "list"

\* ----------------------------------------------------------- C11 .. C13
\* call c is a lookup of the given kind and key
IsLookup(c, kind, id) == calls[c].kind = kind /\ calls[c].arg.id = id
\* the requests call c made
RequestsOf(c) == {r \in ReqIds : reqs[r].call = c}

\* once a get_groups of the client has returned, every later one, all made
\* within the TTL of the entry, made no request and returned the same value
C11_Groups ==
    \A c1, c2 \in CallIds :
        (/\ c1 < c2 /\ IsLookup(c1, "get_groups", "") /\ IsLookup(c2, "get_groups", "")
         /\ calls[c1].pc = "done" /\ calls[c1].result.kind = "ok")
        => /\ RequestsOf(c2) = {}
           /\ calls[c2].pc = "done"
           /\ calls[c2].result = calls[c1].result

\* a get_user_detail(u) that starts while the cache still serves u makes no
\* request and returns the cached detail
C11_UserStep ==
    \A u \in Users :
        (/\ Len(calls') = Len(calls) + 1
         /\ calls'[Len(calls')].kind = "get_user_detail" /\ calls'[Len(calls')].arg.id = u
         /\ CacheHas(user_cache, UserKey(TheBot, u), now))
        => /\ reqs' = reqs
           /\ calls'[Len(calls')].pc = "done"
           /\ calls'[Len(calls')].result
                = ResultOk(CacheItem(user_cache, UserKey(TheBot, u)).value)

\* C11 as claimed: once a get_groups of the client has returned, every later
\* one made within the 5 minutes of the entry, whatever ran in between,
\* lookups through the other instance included, makes no request and returns
\* the cached list; and a get_user_detail of an id that is still cached
\* makes no request
C11_ServedFromCache == []C11_Groups /\ [][C11_UserStep]_vars

\* request r is the fetch of a lookup and has ended without a value
FetchFailed(r) ==
    /\ reqs[r].endpoint \in {"groups", "user"} /\ reqs[r].pc = "done"
    /\ calls[reqs[r].call].kind \in {"get_groups", "get_user_detail"}
    /\ (reqs[r].outcome.kind = "err" \/ reqs[r].outcome.resp.data = <<>>)
\* the token fetch of request r has failed and ended the request
TokenFetchFailed(r) ==
    reqs[r].pc = "done" /\ reqs[r].tokAns # <<>> /\ IsFault(Last(reqs[r].tokAns))

\* after a failed fetch: the caller has the error, and the next lookup of the
\* same key (the next request, for the token) goes to the network again
C12_State ==
    /\ \A r \in ReqIds : FetchFailed(r) =>
        LET c == reqs[r].call
        IN  /\ calls[c].pc = "done"
            /\ calls[c].result.kind = "err"
            /\ reqs[r].outcome.kind = "err" => calls[c].result = ResultErr(reqs[r].outcome)
            /\ (c + 1 \in CallIds /\ IsLookup(c + 1, calls[c].kind, calls[c].arg.id))
                    => RequestsOf(c + 1) # {}
    /\ \A r \in ReqIds : TokenFetchFailed(r) =>
        /\ reqs[r].outcome.kind = "err"
        /\ calls[reqs[r].call].result.kind = "err"
        /\ r + 1 \in ReqIds => reqs[r + 1].tokCalls >= 1

\* the step in which a fetch fails stores nothing: the caches of the lookups
\* are left as they were, and the token cache gains no entry
C12_Step ==
    \A r \in ReqIds :
        /\ (reqs[r].pc # "done" /\ reqs'[r].pc = "done"
                /\ calls'[reqs[r].call].result.kind = "err")
            => groups_cache' = groups_cache /\ user_cache' = user_cache
        /\ (GotTokAnswer(r) /\ IsFault(reqs'[r].tokAns[Len(reqs'[r].tokAns)]))
            => token_cache' \subseteq token_cache

\* C12: a failed fetch never writes a cache: when the GET behind get_groups or
\* get_user_detail fails, or the token-endpoint call behind get_access_token,
\* the caller gets the error, the cache of the lookup is left as it was, no
\* entry is stored, and the next lookup of the key goes to the network again
C12_FailedFetchNotCached == []C12_State /\ [][C12_Step]_vars

\* a get_groups failed and the get_groups after it fetched the list and cached
\* it; and the token fetch of some request failed, another request following
C12_Witness ==
    /\ \E r \in ReqIds :
        /\ FetchFailed(r) /\ reqs[r].endpoint = "groups"
        /\ reqs[r].call + 1 \in CallIds
        /\ IsLookup(reqs[r].call + 1, "get_groups", "")
        /\ calls[reqs[r].call + 1].result.kind = "ok"
        /\ CacheHas(groups_cache, TheBot, now)
    /\ \E r \in ReqIds : TokenFetchFailed(r) /\ r + 1 \in ReqIds

\* this step starts a get_user_detail(u)
C13_Starts(u) ==
    /\ Len(calls') = Len(calls) + 1
    /\ calls'[Len(calls')].kind = "get_user_detail" /\ calls'[Len(calls')].arg.id = u

\* a get_user_detail(u) that starts after one for the same id has returned,
\* every answer having had code 0, and finds the stored token at or past its
\* TTL, sends a GET to the user-detail endpoint after a token-endpoint call
C13_Step ==
    \A u \in Users :
        (/\ C13_Starts(u) /\ faults = 0
         /\ \E c \in CallIds : /\ IsLookup(c, "get_user_detail", u)
                                /\ calls[c].result.kind = "ok"
         /\ TokenAge(token_cache, now) >= token_ttl)
        => /\ Len(reqs') = Len(reqs) + 1
           /\ reqs'[Len(reqs')].endpoint = "user"
           /\ reqs'[Len(reqs')].open_id = u
           /\ reqs'[Len(reqs')].tokCalls = 1

\* the one request of a get_user_detail call
C13_Req(c) == reqs[CHOOSE r \in RequestsOf(c) : TRUE]

\* call c2 is a get_user_detail of the id of the earlier call c1, both have
\* returned, every answer had code 0, and the second found the stored token
\* at or past its TTL
C13_Case(c1, c2) ==
    /\ c1 < c2 /\ faults = 0
    /\ calls[c1].kind = "get_user_detail"
    /\ IsLookup(c2, "get_user_detail", calls[c1].arg.id)
    /\ calls[c1].pc = "done" /\ calls[c2].pc = "done"
    /\ RequestsOf(c2) # {} /\ C13_Req(c2).startAge >= token_ttl

\* each of the two calls made one GET, carrying the token its client held;
\* the second GET carries the token of a token-endpoint call of its own
C13_State ==
    \A c1, c2 \in CallIds : C13_Case(c1, c2) =>
        /\ \A c \in {c1, c2} :
            /\ Cardinality(RequestsOf(c)) = 1
            /\ C13_Req(c).endpoint = "user" /\ C13_Req(c).opCalls = 1
            /\ C13_Req(c).open_id = calls[c].arg.id
            /\ C13_Req(c).sent["Authorization"] = Bearer(C13_Req(c).token)
        /\ C13_Req(c2).tokCalls = 1
        /\ C13_Req(c2).token = Last(C13_Req(c2).tokAns).data[1]

\* C13: two get_user_detail calls for one id, separated by the expiry of the
\* token, each reach the user-detail endpoint: 2 GETs, the first with
\* 'Bearer <first token>', the second with 'Bearer <second token>' from a
\* second token-endpoint call
C13_BothLookupsReachEndpoint == []C13_State /\ [][C13_Step]_vars

\* the run of the repository's test: the first lookup fetched t1, the second,
\* after the token's TTL, fetched t2, and 2 token calls were made in all
C13_Witness ==
    \E c1, c2 \in CallIds :
        /\ C13_Case(c1, c2) /\ c2 = c1 + 1
        /\ C13_Req(c1).tokCalls = 1
        /\ C13_Req(c1).sent["Authorization"] = Bearer("t1")
        /\ C13_Req(c2).sent["Authorization"] = Bearer("t2")
        /\ tokenCalls = 2

\* ---------------------------------------------------------------- C14
\* C14 as claimed: whatever headers the caller gave, every HTTP call a request
\* made to its endpoint carried Authorization: 'Bearer ' + the token
\* get_access_token returned for the attempt, next to the caller's other
\* headers, and the calls to the token endpoint carried no Authorization
C14_BearerOnEveryRequest ==
    \A r \in ReqIds :
        /\ reqs[r].opCalls >= 1 =>
            /\ reqs[r].token # NoToken
            /\ reqs[r].sent["Authorization"] = Bearer(reqs[r].token)
            /\ \A h \in HeaderNames \ {"Authorization"} : reqs[r].sent[h] = reqs[r].extra[h]
        /\ reqs[r].tokSent["Authorization"] = ""

\* ----------------------------------------------------------- C15 .. C19

\* C15 as claimed: a request that met no stored token and whose token fetch
\* was answered a non-zero code other than 99991663 has ended with that
\* RequestError after one token-endpoint call and no call of its own
\* endpoint, and has stored no token
C15_TokenFailureFailsOnce ==
    \A r \in ReqIds :
        (/\ reqs[r].startAge = -1 /\ reqs[r].tokAns # <<>>
         /\ IsEnvelope(reqs[r].tokAns[1])
         /\ reqs[r].tokAns[1].code \notin {0, TOKEN_EXPIRED})
        => /\ reqs[r].pc = "done"
           /\ reqs[r].tokCalls = 1 /\ reqs[r].opCalls = 0 /\ reqs[r].attempt = 1
           /\ reqs[r].outcome = Raised("RequestError", reqs[r].tokAns[1].code,
                                       reqs[r].tokAns[1].msg)
           /\ r = Len(reqs) => token_cache = {}

\* C16 as claimed: a request that has ended on an envelope returned it if and
\* only if its code is 0, and raised RequestError with the code and message
\* for every other code except 99991663
C16_ReturnsIffCodeZero ==
    \A r \in ReqIds :
        (reqs[r].pc = "done" /\ reqs[r].opAns # <<>> /\ IsEnvelope(Last(reqs[r].opAns)))
        => LET resp == Last(reqs[r].opAns)
           IN  /\ reqs[r].outcome.kind = "ok" <=> resp.code = 0
               /\ resp.code \notin {0, TOKEN_EXPIRED}
                    => reqs[r].outcome = Raised("RequestError", resp.code, resp.msg)

\* the error request raises for a body that is no envelope
DecodeError(resp) == IF ~resp.json THEN "JSONDecodeError" ELSE "KeyError"

\* a request whose endpoint answered with a body that is no envelope has ended
\* after that attempt, raising an error of the given type
C17_EndsWith(type) ==
    \A r \in ReqIds :
        (reqs[r].opAns # <<>> /\ ~IsEnvelope(Last(reqs[r].opAns)))
        => /\ reqs[r].pc = "done"
           /\ reqs[r].opCalls = Len(reqs[r].opAns)
           /\ reqs[r].attempt = Len(reqs[r].opAns)
           /\ ~IsEnvelope(reqs[r].opAns[1]) => reqs[r].attempt = 1 /\ reqs[r].opCalls = 1
           /\ reqs[r].outcome.kind = "err"
           /\ reqs[r].outcome.type = type[Last(reqs[r].opAns)]

\* C17 as claimed: a body that is no envelope makes request fail with a
\* ProtocolError after that one attempt
C17_ProtocolError ==
    C17_EndsWith([resp \in {Malformed, NoMsg, NoCode, EmptyBody} |-> "ProtocolError"])

\* the step in which a request is answered a body that is no envelope leaves
\* the token cache as it was
C17_CacheKept ==
    \A r \in ReqIds :
        (\/ GotOpAnswer(r) /\ ~IsEnvelope(Last(reqs'[r].opAns))
         \/ GotTokAnswer(r) /\ ~IsEnvelope(Last(reqs'[r].tokAns)))
        => token_cache' = token_cache

\* what request does on a body that is no envelope: it fails after that one
\* attempt, with no retry and the token cache unchanged, and the caller gets
\* the error of the decoding (JSONDecodeError for a body that is not JSON,
\* KeyError for a missing code or msg), unwrapped
C17_DecodeErrorFailsOnce ==
    /\ [](C17_EndsWith([resp \in {Malformed, NoMsg, NoCode, EmptyBody} |-> DecodeError(resp)]))
    /\ [][C17_CacheKept]_vars

\* one request ended on a body that is not JSON and another on a body without
\* msg, and the token they used is still stored
C17_Witness ==
    /\ \E r \in ReqIds : reqs[r].pc = "done" /\ reqs[r].opAns = <<Malformed>>
    /\ \E r \in ReqIds : reqs[r].pc = "done" /\ reqs[r].opAns = <<NoMsg>>
                         /\ TokenGet(token_cache, now) = reqs[r].token

\* C18: under every interleaving the token cache is empty or holds one item,
\* the whole token of a code-0 answer that the token endpoint gave a request
\* of this client, stored with the TTL; and a request makes one token-endpoint
\* call per attempt at most unless the token endpoint itself answers 99991663
C18_CacheNeverCorrupted ==
    /\ Cardinality(token_cache) <= 1
    /\ \A e \in token_cache :
        /\ e.key = TheBot /\ e.value \in Tokens
        /\ e.at <= now /\ e.expires = e.at + token_ttl
        /\ \E r \in ReqIds : \E i \in 1..Len(reqs[r].tokAns) :
                /\ IsEnvelope(reqs[r].tokAns[i]) /\ reqs[r].tokAns[i].code = 0
                /\ reqs[r].tokAns[i].data = <<e.value>>
    /\ \A r \in ReqIds :
        /\ reqs[r].tokCalls <= reqs[r].attempt * MaxAttempts
        /\ (\A i \in 1..Len(reqs[r].tokAns) : reqs[r].tokAns[i].code # TOKEN_EXPIRED)
                => reqs[r].tokCalls <= reqs[r].attempt

\* two requests running at once each fetched a token, with different results,
\* and one of the two tokens is stored
C18_Witness ==
    \E r, q \in ReqIds :
        /\ r # q /\ reqs[r].call = reqs[q].call
        /\ reqs[r].tokAns # <<>> /\ reqs[q].tokAns # <<>>
        /\ AllCodeZero(reqs[r].tokAns) /\ AllCodeZero(reqs[q].tokAns)
        /\ reqs[r].tokAns[1] # reqs[q].tokAns[1]
        /\ reqs[r].pc = "op_inflight" /\ reqs[q].pc = "op_inflight"
        /\ Cardinality(token_cache) = 1

\* request r is answered code 99991663 in this step, by its own endpoint or
\* by the token endpoint
C19_GotExpired(r) ==
    \/ /\ GotOpAnswer(r) /\ IsEnvelope(Last(reqs'[r].opAns))
       /\ Last(reqs'[r].opAns).code = TOKEN_EXPIRED
    \/ /\ GotTokAnswer(r) /\ IsEnvelope(Last(reqs'[r].tokAns))
       /\ Last(reqs'[r].tokAns).code = TOKEN_EXPIRED

\* the step that processes code 99991663 leaves the token cache empty; and a
\* request that retries while the cache is still empty fetches a token
C19_Step ==
    \A r \in ReqIds :
        /\ C19_GotExpired(r) => token_cache' = {}
        /\ (reqs[r].pc = "op_sleep" /\ reqs'[r].pc # "op_sleep" /\ token_cache = {})
            => reqs'[r].pc = "tok_inflight" /\ reqs'[r].tokCalls = reqs[r].tokCalls + 1

\* C19: whenever request processes a response of code 99991663, whatever the
\* request and the age of the stored token, the token cache is empty when
\* TokenExpiredError is raised, and the next get_access_token that finds it
\* still empty calls the token endpoint
C19_ClearOnExpired == [][C19_Step]_vars

\* a request waits for its retry after code 99991663 while the token stored
\* before is within its TTL, and the cache is empty
C19_Witness ==
    \E r \in ReqIds :
        /\ reqs[r].pc = "op_sleep"
        /\ firstStore >= 0 /\ now < firstStore + token_ttl
        /\ token_cache = {}

\* ---------------------------------------------------------------- C20
\* the upload requests, send requests and destination-list lookups of call c
Uploads(c) == {r \in ReqIds : reqs[r].call = c /\ reqs[r].endpoint = "upload"}
Dispatched(c) == Children(c) \cup C10_Lookups(c)

\* C20: in send_image the upload comes first: no send request and no lookup of
\* the destination list exists before the one upload request has returned an
\* image_key; when the image fetch or the upload fails the call fails with
\* that error and nothing is sent; every send carries the image_key that the
\* upload returned
C20_UploadBeforeDispatch ==
    \A c \in CallIds : calls[c].kind = "send_image" =>
        LET cl == calls[c]
        IN  /\ Cardinality(Uploads(c)) <= 1
            /\ cl.pc \in {"fetching", "uploading"} => Dispatched(c) = {}
            /\ cl.pc = "fetching" => Uploads(c) = {}
            /\ Dispatched(c) # {} =>
                \E u \in Uploads(c) :
                    /\ ChildOk(u) /\ reqs[u].outcome.resp.data # <<>>
                    /\ cl.image_key = reqs[u].outcome.resp.data[1]
                    /\ cl.image_key \in ImageKeys
                    /\ \A r \in Dispatched(c) : u < r
                    /\ \A r \in Children(c) : reqs[r].content = cl.image_key
            /\ (cl.pc = "done" /\ Uploads(c) = {}) =>
                /\ cl.result = ResultErr(Raised("ClientError", 0, "image"))
                /\ Dispatched(c) = {}
            /\ \A u \in Uploads(c) :
                (reqs[u].pc = "done" /\ ImageKeyOf(reqs[u].outcome).kind = "err")
                => /\ cl.pc = "done"
                   /\ cl.result = ImageKeyOf(reqs[u].outcome)
                   /\ Dispatched(c) = {}

\* a send_image to all groups has looked the two groups up after its upload
\* and returned the results of its two sends
C20_Witness ==
    \E c \in CallIds :
        /\ calls[c].kind = "send_image" /\ calls[c].arg.kind = "none"
        /\ calls[c].pc = "done" /\ calls[c].result.kind = "ok"
        /\ Cardinality(Children(c)) = 2 /\ C10_Lookups(c) # {}
        /\ calls[c].image_key = "k2"

\* ---------------------------------------------------------------- C21, C22

\* request q gets its token from the token endpoint in this step, stores it
\* and sends its attempt with it
Fetched(q) == /\ Len(reqs'[q].tokAns) > Len(reqs[q].tokAns)
              /\ reqs'[q].opCalls > reqs[q].opCalls

\* the tokens that were rejected while the token fetch of request q was in flight
RejectedMeanwhile(q) == Rejected \ reqs[q].fetchSaw

\* a token fetch does not bring back a token that was rejected while the fetch
\* was in flight
C21_Step ==
    \A q \in ReqIds : Fetched(q) =>
        /\ reqs'[q].token \notin RejectedMeanwhile(q)
        /\ TokenGet(token_cache', now') \notin RejectedMeanwhile(q)

\* C21: once a request carrying token T has been answered with code 99991663,
\* no later request attempt of the client is sent with T: a token fetch that
\* was already in flight when T was invalidated neither puts T back into the
\* cache nor sends its attempt with T. (A fetch begun after the invalidation
\* may be given T again by the platform; that case is left out.)
C21_RejectedTokenNotReused == [][C21_Step]_vars

\* request r, carrying a token, is answered with the reserved code in this step
RejectedNow(r) ==
    /\ Len(reqs'[r].opAns) > Len(reqs[r].opAns)
    /\ IsEnvelope(Last(reqs'[r].opAns)) /\ Last(reqs'[r].opAns).code = TOKEN_EXPIRED

\* the cache serves a token other than the one request r carried
HoldsNewer(r) ==
    /\ TokenGet(token_cache, now) # NoToken
    /\ TokenGet(token_cache, now) # reqs[r].token

C22_Step ==
    \A r \in ReqIds : (RejectedNow(r) /\ HoldsNewer(r))
        => TokenGet(token_cache', now') = TokenGet(token_cache, now)

\* C22: invalidation removes only the rejected credential: when a request
\* that carried token T is answered with code 99991663 while the cache holds
\* a different token T2, stored by a concurrent refresh, the cache still holds
\* T2 afterwards
C22_InvalidationKeepsNewer == [][C22_Step]_vars

\* -------------------------------------------------------------------- C23
\* the round-trips of request r stay within the bounds of the two decorators
C23_Bounded(r) ==
    /\ reqs[r].attempt <= MaxAttempts
    /\ reqs[r].opCalls <= reqs[r].attempt
    /\ reqs[r].tattempt <= MaxAttempts
    /\ reqs[r].tokCalls <= MaxAttempts * reqs[r].attempt
    /\ reqs[r].tokCalls <= MaxAttempts * MaxAttempts
    \* the token call carries no Authorization header: no_auth skips
    \* get_access_token
    /\ reqs[r].tokSent = NoHeaders
    \* once the last allowed answer is in, the call is over
    /\ Len(reqs[r].opAns) = MaxAttempts => reqs[r].pc = "done"
    /\ reqs[r].pc = "done" => reqs[r].outcome.kind # "none"

C23_AllDone == \A r \in ReqIds : reqs[r].pc = "done"

\* C23: every call to request returns or fails after a bounded number of
\* round-trips, whatever the platform answers: at most 3 calls to the
\* operation endpoint, at most 3 token-endpoint calls per attempt and 9 in all,
\* and the token fetch never fetches a token itself
C23_BoundedTermination ==
    /\ [](\A r \in ReqIds : C23_Bounded(r))
    /\ []<>C23_AllDone

\* a request that used all 9 token calls and all 3 attempts and then failed
C23_Witness ==
    \E r \in ReqIds :
        /\ reqs[r].pc = "done" /\ reqs[r].outcome.kind = "err"
        /\ reqs[r].tokCalls = MaxAttempts * MaxAttempts
        /\ reqs[r].opCalls = MaxAttempts
====
